---- MODULE Spec2Model ----
(***************************************************************************)
(* Model of pygha_tools: the Summary builder (summary.py), the Text and    *)
(* Link value objects (text.py, link.py) and the enums (enums.py).         *)
(*                                                                         *)
(* A Python str is a sequence of one-character strings, so that len(),     *)
(* '+', join and the f-strings are computed as the code computes them.     *)
(* An Optional value is <<>> (None) or <<v>>.                              *)
(***************************************************************************)
EXTENDS Integers, Sequences, FiniteSets, TLC

VARIABLES
    env,       \* os.environ.get('GITHUB_STEP_SUMMARY'): Optional path
    obj,       \* the Summary instance: "none", "partial" (__init__ raised), "built"
    doc,       \* self.doc: "none" (no attribute), "open", "closed"
    _lines,    \* self._lines: the buffer, a sequence of fragments
    content,   \* the text the sink holds: the file at open() plus what doc.write accepted
    writes,    \* number of doc.write calls the sink accepted
    closes,    \* number of doc.close calls made
    lastOp,    \* the last method called
    arg,       \* the arguments of the last call: addTable's data, the tuple of an
               \* addText, addHeading or addLink call's arguments, the operands
               \* of a concatenation (<<>> otherwise)
    ret,       \* outcome of the last call: a return value or a raised exception
    calls,     \* the sink calls the last call made, in order, with their results
    rendered   \* the cells whose render() the last call invoked, in order

vars == <<env, obj, doc, _lines, content, writes, closes,
          lastOp, arg, ret, calls, rendered>>

\* The program's own state, without the record of the last call.
progVars == <<env, obj, doc, _lines, content, writes, closes>>

----------------------------------------------------------------------------
\* Bounds of the model.

\* Adds are explored while the buffer holds fewer than MaxLines fragments.
MaxLines == 2
\* Sink writes are explored while the sink accepted fewer than MaxWrites.
MaxWrites == 2
\* Tables of up to MaxRows rows (header included) are drawn in SpecTable.
MaxRows == 3

----------------------------------------------------------------------------
\* Python values.

None == <<>>
Some(v) == <<v>>

\* Python truthiness of an Optional[str]: None and "" are falsy.
Truthy(opt) == opt # None /\ opt[1] # <<>>

NL == "\n"
\* The backtick character (the parser accepts none inside a string literal).
BQ == "backtick"

\* enums.TextStyle and "no style" (style=None, or any other value).
BOLD == "bold"
ITALIC == "italic"
UNDERLINED == "underlined"
NoStyle == "nostyle"
TextStyle == {BOLD, ITALIC, UNDERLINED}

\* enums.HeadingKind and the .value of each member.
ATX == {"H1", "H2", "H3", "H4", "H5", "H6"}
SETEXT1 == "SETEXT1"
SETEXT2 == "SETEXT2"
HeadingKind == ATX \cup {SETEXT1, SETEXT2}
KindValue(kind) ==
    CASE kind = "H1" -> 1 [] kind = "H2" -> 2 [] kind = "H3" -> 3
      [] kind = "H4" -> 4 [] kind = "H5" -> 5 [] kind = "H6" -> 6

\* c * n for a one-character string c.
Repeat(c, n) == [i \in 1..n |-> c]

\* sep.join(parts)
RECURSIVE Join(_, _)
Join(sep, parts) ==
    IF parts = <<>> THEN <<>>
    ELSE IF Len(parts) = 1 THEN parts[1]
    ELSE parts[1] \o sep \o Join(sep, Tail(parts))

\* What a call hands back to its caller.
Return(v) == [kind |-> "return", exc |-> "", msg |-> "", args |-> <<>>, value |-> v]
Raise(e, m, a) == [kind |-> "raise", exc |-> e, msg |-> m, args |-> a, value |-> ""]
Self == Return("self")
NoValue == Return("None")

\* One call on the sink and how it ended ("ok" or the exception raised).
SinkCall(op, data, result) == [op |-> op, data |-> data, result |-> result]

----------------------------------------------------------------------------
\* Cell and argument values.

\* str(n) for a non-negative int.
Digit(d) ==
    CASE d = 0 -> "0" [] d = 1 -> "1" [] d = 2 -> "2" [] d = 3 -> "3" [] d = 4 -> "4"
      [] d = 5 -> "5" [] d = 6 -> "6" [] d = 7 -> "7" [] d = 8 -> "8" [] d = 9 -> "9"
RECURSIVE IntStr(_)
IntStr(n) == IF n < 10 THEN <<Digit(n)>> ELSE IntStr(n \div 10) \o <<Digit(n % 10)>>

\* A table cell: a str, an int, a Text object or a Link object.
StrCell(s) ==
    [type |-> "str", text |-> s, n |-> 0, style |-> NoStyle, id |-> None,
     href |-> <<>>, title |-> None]
IntCell(k) ==
    [type |-> "int", text |-> <<>>, n |-> k, style |-> NoStyle, id |-> None,
     href |-> <<>>, title |-> None]
\* Text.__init__
Text(text, style, id) ==
    [type |-> "Text", text |-> text, n |-> 0, style |-> style, id |-> id,
     href |-> <<>>, title |-> None]
\* Link.__init__
Link(text, href, title, style) ==
    [type |-> "Link", text |-> text, n |-> 0, style |-> style, id |-> None,
     href |-> href, title |-> title]

\* Text.render
Text_render(t) ==
    LET styled == IF t.style = BOLD THEN <<"*", "*">> \o t.text \o <<"*", "*">>
                  ELSE IF t.style = ITALIC THEN <<"*">> \o t.text \o <<"*">>
                  ELSE IF t.style = UNDERLINED
                       THEN <<"<", "u", ">">> \o t.text \o <<"<", "/", "u", ">">>
                  ELSE t.text
    IN  IF Truthy(t.id)
        THEN <<"<", "s", "p", "a", "n", " ", "i", "d", "=", "\"">> \o t.id[1]
             \o <<"\"", ">">> \o styled \o <<"<", "/", "s", "p", "a", "n", ">">>
        ELSE styled

\* Link.render
Link_render(l) ==
    LET styled_text ==
            IF l.style = BOLD THEN <<"*", "*">> \o l.text \o <<"*", "*">>
            ELSE IF l.style = ITALIC THEN <<"*">> \o l.text \o <<"*">>
            ELSE IF l.style = UNDERLINED
                 THEN <<"<", "u", ">">> \o l.text \o <<"<", "/", "u", ">">>
            ELSE l.text
    IN  IF Truthy(l.title)
        THEN <<"[">> \o styled_text \o <<"]", "(">> \o l.href \o <<" ", "\"">>
             \o l.title[1] \o <<"\"", ")">>
        ELSE <<"[">> \o styled_text \o <<"]", "(">> \o l.href \o <<")">>

----------------------------------------------------------------------------
\* The + operator on Text and Link (text.py, link.py).

\* The value None.
NoneCell ==
    [type |-> "NoneType", text |-> <<>>, n |-> 0, style |-> NoStyle, id |-> None,
     href |-> <<>>, title |-> None]
\* What __add__ and __radd__ return for an operand they do not handle.
NotImplemented ==
    [type |-> "NotImplemented", text |-> <<>>, n |-> 0, style |-> NoStyle, id |-> None,
     href |-> <<>>, title |-> None]

\* other.render(), for an operand that has the attribute.
Render(other) == IF other.type = "Text" THEN Text_render(other) ELSE Link_render(other)

\* Text.__add__ falling back on str(other) for an operand it does not handle.
Text_add_stringify(self, other) ==
    IF other.type = "str" THEN StrCell(Text_render(self) \o other.text)
    ELSE IF other.type \in {"Text", "Link"} THEN StrCell(Text_render(self) \o Render(other))
    ELSE IF other.type = "int" THEN StrCell(Text_render(self) \o IntStr(other.n))
    ELSE StrCell(Text_render(self) \o <<"N", "o", "n", "e">>)

\* Text.__add__
Text_add(self, other) ==
    IF other.type = "str" THEN StrCell(Text_render(self) \o other.text)
    ELSE IF other.type \in {"Text", "Link"} THEN StrCell(Text_render(self) \o Render(other))
    ELSE NotImplemented

\* Text.__radd__ with the operands in __add__'s order.
Text_radd_swapped(self, other) ==
    IF other.type = "str" THEN StrCell(Text_render(self) \o other.text)
    ELSE IF other.type \in {"Text", "Link"} THEN StrCell(Text_render(self) \o Render(other))
    ELSE NotImplemented

\* Text.__radd__
Text_radd(self, other) ==
    IF other.type = "str" THEN StrCell(other.text \o Text_render(self))
    ELSE IF other.type \in {"Text", "Link"} THEN StrCell(Render(other) \o Text_render(self))
    ELSE NotImplemented

\* Link.__add__
Link_add(self, other) ==
    IF other.type = "str" THEN StrCell(Link_render(self) \o other.text)
    ELSE IF other.type \in {"Text", "Link"} THEN StrCell(Link_render(self) \o Render(other))
    ELSE NotImplemented

\* Link.__radd__
Link_radd(self, other) ==
    IF other.type = "str" THEN StrCell(other.text \o Link_render(self))
    ELSE IF other.type \in {"Text", "Link"} THEN StrCell(Render(other) \o Link_render(self))
    ELSE NotImplemented

\* type(x).__add__(x, y): Text's and Link's, and those of str and int (None
\* has none).
LeftAdd(x, y) ==
    CASE x.type = "Text" -> Text_add(x, y)
      [] x.type = "Link" -> Link_add(x, y)
      [] x.type = "str" -> IF y.type = "str" THEN StrCell(x.text \o y.text)
                           ELSE NotImplemented
      [] x.type = "int" -> IF y.type = "int" THEN IntCell(x.n + y.n) ELSE NotImplemented
      [] OTHER -> NotImplemented

\* type(y).__radd__(y, x): Text's and Link's, and int's (str and None have none).
RightAdd(y, x) ==
    CASE y.type = "Text" -> Text_radd(y, x)
      [] y.type = "Link" -> Link_radd(y, x)
      [] y.type = "int" -> IF x.type = "int" THEN IntCell(x.n + y.n) ELSE NotImplemented
      [] OTHER -> NotImplemented

\* x + y: x's __add__, then, if that is NotImplemented and the types differ,
\* y's __radd__; NotImplemented here stands for the TypeError the interpreter
\* raises when both decline.
Plus(x, y) ==
    IF LeftAdd(x, y) # NotImplemented THEN LeftAdd(x, y)
    ELSE IF x.type # y.type THEN RightAdd(y, x)
    ELSE NotImplemented

----------------------------------------------------------------------------
\* The fragment each add-operation builds (summary.py).

\* addText: markdown_text
TextFragment(text, style, id) ==
    LET markdown_text ==
            IF style = BOLD THEN <<"*", "*">> \o text \o <<"*", "*">>
            ELSE IF style = ITALIC THEN <<"*">> \o text \o <<"*">>
            ELSE IF style = UNDERLINED
                 THEN <<"<", "u", ">">> \o text \o <<"<", "/", "u", ">">>
            ELSE text
    IN  IF Truthy(id)
        THEN <<"<", "s", "p", "a", "n", " ", "i", "d", "=", "\"">> \o id[1]
             \o <<"\"", ">">> \o markdown_text \o <<"<", "/", "s", "p", "a", "n", ">">>
        ELSE markdown_text

\* str.split('\n')
RECURSIVE SplitNL(_)
SplitNL(s) ==
    IF \A i \in 1..Len(s) : s[i] # NL THEN <<s>>
    ELSE LET k == CHOOSE i \in 1..Len(s) : s[i] = NL /\ \A j \in 1..(i - 1) : s[j] # NL
         IN  <<SubSeq(s, 1, k - 1)>> \o SplitNL(SubSeq(s, k + 1, Len(s)))

\* HeadingFragment with the underline measured on the heading line as it is
\* after an ATX prefix would be added (two characters more than the text).
HeadingFragment_longUnderline(text, kind, id) ==
    LET markdown_heading ==
            IF kind = SETEXT1 THEN text \o <<NL>> \o Repeat("=", Len(text) + 2)
            ELSE IF kind = SETEXT2 THEN text \o <<NL>> \o Repeat("-", Len(text) + 2)
            ELSE Repeat("#", KindValue(kind)) \o <<" ">> \o text
    IN  IF Truthy(id)
        THEN <<"<", "s", "p", "a", "n", " ", "i", "d", "=", "\"">> \o id[1]
             \o <<"\"", ">">> \o markdown_heading
             \o <<"<", "/", "s", "p", "a", "n", ">">>
        ELSE markdown_heading

\* addHeading: markdown_heading
HeadingFragment(text, kind, id) ==
    LET markdown_heading ==
            IF kind = SETEXT1 THEN text \o <<NL>> \o Repeat("=", Len(text))
            ELSE IF kind = SETEXT2 THEN text \o <<NL>> \o Repeat("-", Len(text))
            ELSE Repeat("#", KindValue(kind)) \o <<" ">> \o text
    IN  IF Truthy(id)
        THEN IF kind \in {SETEXT1, SETEXT2}
             THEN LET lines == SplitNL(markdown_heading)
                  IN  <<"<", "s", "p", "a", "n", " ", "i", "d", "=", "\"">> \o id[1]
                      \o <<"\"", ">", NL>> \o lines[1] \o <<NL>> \o lines[2]
                      \o <<NL, "<", "/", "s", "p", "a", "n", ">">>
             ELSE <<"<", "s", "p", "a", "n", " ", "i", "d", "=", "\"">> \o id[1]
                  \o <<"\"", ">">> \o markdown_heading
                  \o <<"<", "/", "s", "p", "a", "n", ">">>
        ELSE markdown_heading

\* addCode: markdown_code
CodeFragment(code, language) ==
    LET lang == IF Truthy(language) THEN language[1] ELSE <<>>
    IN  <<BQ, BQ, BQ>> \o lang \o <<NL>> \o code \o <<NL, BQ, BQ, BQ>>

\* LinkFragment with the style applied to the whole link, not to its text.
LinkFragment_styledWhole(text, url, title, style) ==
    LET link == IF Truthy(title)
                THEN <<"[">> \o text \o <<"]", "(">> \o url \o <<" ", "\"">>
                     \o title[1] \o <<"\"", ")">>
                ELSE <<"[">> \o text \o <<"]", "(">> \o url \o <<")">>
    IN  IF style = BOLD THEN <<"*", "*">> \o link \o <<"*", "*">>
        ELSE IF style = ITALIC THEN <<"*">> \o link \o <<"*">>
        ELSE IF style = UNDERLINED
             THEN <<"<", "u", ">">> \o link \o <<"<", "/", "u", ">">>
        ELSE link

\* addLink: markdown_link
LinkFragment(text, url, title, style) ==
    LET styled_text ==
            IF style = BOLD THEN <<"*", "*">> \o text \o <<"*", "*">>
            ELSE IF style = ITALIC THEN <<"*">> \o text \o <<"*">>
            ELSE IF style = UNDERLINED
                 THEN <<"<", "u", ">">> \o text \o <<"<", "/", "u", ">">>
            ELSE text
    IN  IF Truthy(title)
        THEN <<"[">> \o styled_text \o <<"]", "(">> \o url \o <<" ", "\"">>
             \o title[1] \o <<"\"", ")">>
        ELSE <<"[">> \o styled_text \o <<"]", "(">> \o url \o <<")">>

\* addTable: the validation, in the order the code makes its tests.

\* FirstMismatch with the loop left running after a mismatch: the last
\* offending row is reported.
RECURSIVE FirstMismatch_last(_, _, _)
FirstMismatch_last(data, from, num_columns) ==
    IF from >= Len(data) THEN -1
    ELSE LET later == FirstMismatch_last(data, from + 1, num_columns)
         IN  IF later # -1 THEN later
             ELSE IF Len(data[from + 1]) # num_columns THEN from ELSE -1

\* The loop over enumerate(data): the first 0-based index i >= from whose row
\* has a length other than num_columns, or -1 when the loop ends.
RECURSIVE FirstMismatch(_, _, _)
FirstMismatch(data, from, num_columns) ==
    IF from >= Len(data) THEN -1
    ELSE IF Len(data[from + 1]) # num_columns THEN from
    ELSE FirstMismatch(data, from + 1, num_columns)

Valid == Return("valid")

\* The exception addTable raises for data, or Valid.
Validate(data) ==
    IF data = <<>> THEN Raise("ValueError", "Table data cannot be empty", <<>>)
    ELSE IF Len(data) < 1
    THEN Raise("ValueError", "Table must have at least a header row", <<>>)
    ELSE LET header == data[1]
             num_columns == Len(header)
             i == FirstMismatch(data, 0, num_columns)
         IN  IF num_columns = 0
             THEN Raise("ValueError", "Header row cannot be empty", <<>>)
             ELSE IF i # -1
             THEN Raise("ValueError",
                        "Row {i} has {len(row)} columns, but header has {num_columns} columns. All rows must have the same number of columns.",
                        <<i, Len(data[i + 1]), num_columns>>)
             ELSE Valid

\* hasattr(cell, 'render')
HasRender(cell) == cell.type \in {"Text", "Link"}

\* render_cell
render_cell(cell) ==
    IF HasRender(cell)
    THEN IF cell.type = "Text" THEN Text_render(cell) ELSE Link_render(cell)
    ELSE IF cell.type = "int" THEN IntStr(cell.n) ELSE cell.text

\* "| " + " | ".join(render_cell(cell) for cell in row) + " |"
RowLine(row) ==
    <<"|", " ">> \o Join(<<" ", "|", " ">>, [j \in 1..Len(row) |-> render_cell(row[j])])
    \o <<" ", "|">>

\* SeparatorLine with ["---" * num_columns] for ["---"] * num_columns: one
\* cell of 3 * num_columns dashes.
SeparatorLine_single(num_columns) ==
    <<"|", " ">> \o Join(<<" ", "|", " ">>, <<Repeat("-", 3 * num_columns)>>) \o <<" ", "|">>

\* "| " + " | ".join(["---"] * num_columns) + " |"
SeparatorLine(num_columns) ==
    <<"|", " ">> \o Join(<<" ", "|", " ">>, [j \in 1..num_columns |-> <<"-", "-", "-">>])
    \o <<" ", "|">>

\* addTable: markdown_table, for valid data.
TableFragment(data) ==
    LET header == data[1]
        num_columns == Len(header)
        table_lines == <<RowLine(header), SeparatorLine(num_columns)>>
                       \o [k \in 1..(Len(data) - 1) |-> RowLine(data[k + 1])]
    IN  Join(<<NL>>, table_lines)

\* The cells render_cell calls render() on while the table is built: the
\* header's, then each data row's, left to right.
RECURSIVE RenderCalls(_)
RenderCalls(data) ==
    IF data = <<>> THEN <<>>
    ELSE SelectSeq(data[1], HasRender) \o RenderCalls(Tail(data))

----------------------------------------------------------------------------
\* The environment and the sink.

\* The sink locations tried: the variable unset, set to "", set to the path of
\* a file that does not exist yet, set to the path of a file with content.
NewPath == <<"n", "e", "w">>
OldPath == <<"o", "l", "d">>
Environments == {None, Some(<<>>), Some(NewPath), Some(OldPath)}

\* What the file at path holds before the program runs.
FileAt(path) == IF path = OldPath THEN <<"k", "e", "p", "t", NL>> ELSE <<>>

\* open(path, mode) truncating the file in every mode, as mode 'w' does.
Open_truncates(path, mode) == <<>>

\* open(path, mode): the content of the file once opened.
Open(path, mode) == IF mode = "a" THEN FileAt(path) ELSE <<>>

\* How a sink write and the flush after it may end: both succeed, the write
\* raises, or the write succeeds and the flush raises.
Outcomes == {"ok", "writeErr", "flushErr"}

Init ==
    /\ env \in Environments
    /\ obj = "none"
    /\ doc = "none"
    /\ _lines = <<>>
    /\ content = IF Truthy(env) THEN FileAt(env[1]) ELSE <<>>
    /\ writes = 0
    /\ closes = 0
    /\ lastOp = "start"
    /\ arg = <<>>
    /\ ret = NoValue
    /\ calls = <<>>
    /\ rendered = <<>>

----------------------------------------------------------------------------
\* Summary's methods, one action each.

\* __init__ without the test of summary_path: open() is called with whatever
\* the environment holds, and raises for None and for "".
__init___unchecked ==
    /\ obj = "none"
    /\ lastOp' = "__init__"
    /\ arg' = <<>>
    /\ rendered' = <<>>
    /\ IF ~Truthy(env)
       THEN /\ obj' = "partial"
            /\ ret' = Raise(IF env = None THEN "TypeError" ELSE "FileNotFoundError",
                            "open", <<>>)
            /\ calls' = <<SinkCall("open", <<"a">>, ret'.exc)>>
            /\ UNCHANGED <<doc, _lines, content>>
       ELSE /\ obj' = "built"
            /\ doc' = "open"
            /\ content' = Open(env[1], "a")
            /\ calls' = <<SinkCall("open", <<"a">>, "ok")>>
            /\ _lines' = <<>>
            /\ ret' = NoValue
    /\ UNCHANGED <<env, writes, closes>>

\* Summary.__init__
__init__ ==
    /\ obj = "none"
    /\ lastOp' = "__init__"
    /\ arg' = <<>>
    /\ rendered' = <<>>
    /\ IF ~Truthy(env)
       THEN /\ obj' = "partial"
            /\ ret' = Raise("ValueError",
                            "GITHUB_STEP_SUMMARY environment variable is not set", <<>>)
            /\ calls' = <<>>
            /\ UNCHANGED <<doc, _lines, content>>
       ELSE /\ obj' = "built"
            /\ doc' = "open"
            /\ content' = Open(env[1], "a")
            /\ calls' = <<SinkCall("open", <<"a">>, "ok")>>
            /\ _lines' = <<>>
            /\ ret' = NoValue
    /\ UNCHANGED <<env, writes, closes>>

\* Summary.addText
addText(text, style, id) ==
    /\ obj = "built"
    /\ _lines' = Append(_lines, TextFragment(text, style, id))
    /\ lastOp' = "addText"
    /\ ret' = Self
    /\ arg' = <<text, style, id>> /\ calls' = <<>> /\ rendered' = <<>>
    /\ UNCHANGED <<env, obj, doc, content, writes, closes>>

\* Summary.addHeading
addHeading(text, kind, id) ==
    /\ obj = "built"
    /\ _lines' = Append(_lines, HeadingFragment(text, kind, id))
    /\ lastOp' = "addHeading"
    /\ ret' = Self
    /\ arg' = <<text, kind, id>> /\ calls' = <<>> /\ rendered' = <<>>
    /\ UNCHANGED <<env, obj, doc, content, writes, closes>>

\* Summary.addCode
addCode(code, language) ==
    /\ obj = "built"
    /\ _lines' = Append(_lines, CodeFragment(code, language))
    /\ lastOp' = "addCode"
    /\ ret' = Self
    /\ arg' = <<>> /\ calls' = <<>> /\ rendered' = <<>>
    /\ UNCHANGED <<env, obj, doc, content, writes, closes>>

\* Summary.addLink
addLink(text, url, title, style) ==
    /\ obj = "built"
    /\ _lines' = Append(_lines, LinkFragment(text, url, title, style))
    /\ lastOp' = "addLink"
    /\ ret' = Self
    /\ arg' = <<text, url, title, style>> /\ calls' = <<>> /\ rendered' = <<>>
    /\ UNCHANGED <<env, obj, doc, content, writes, closes>>

\* addTable with each row checked only when it is about to be rendered: the
\* rows before the offending one are rendered, and what was built is kept.
addTable_partial(data) ==
    /\ obj = "built"
    /\ lastOp' = "addTable"
    /\ arg' = data
    /\ calls' = <<>>
    /\ IF Validate(data) # Valid
       THEN /\ ret' = Validate(data)
            /\ IF Validate(data).args # <<>>
               THEN LET done == SubSeq(data, 1, Validate(data).args[1])
                    IN  /\ rendered' = RenderCalls(done)
                        /\ _lines' = Append(_lines, TableFragment(done))
               ELSE /\ rendered' = <<>>
                    /\ UNCHANGED _lines
       ELSE /\ rendered' = RenderCalls(data)
            /\ _lines' = Append(_lines, TableFragment(data))
            /\ ret' = Self
    /\ UNCHANGED <<env, obj, doc, content, writes, closes>>

\* Summary.addTable
addTable(data) ==
    /\ obj = "built"
    /\ lastOp' = "addTable"
    /\ arg' = data
    /\ calls' = <<>>
    /\ IF Validate(data) # Valid
       THEN /\ ret' = Validate(data)
            /\ rendered' = <<>>
            /\ UNCHANGED _lines
       ELSE /\ rendered' = RenderCalls(data)
            /\ _lines' = Append(_lines, TableFragment(data))
            /\ ret' = Self
    /\ UNCHANGED <<env, obj, doc, content, writes, closes>>

\* Summary.addNewLine
addNewLine ==
    /\ obj = "built"
    /\ _lines' = Append(_lines, <<>>)
    /\ lastOp' = "addNewLine"
    /\ ret' = Self
    /\ arg' = <<>> /\ calls' = <<>> /\ rendered' = <<>>
    /\ UNCHANGED <<env, obj, doc, content, writes, closes>>

\* addDivider with self._lines += "---" for append: a list extended by a str
\* takes its characters one by one.
addDivider_extend ==
    /\ obj = "built"
    /\ _lines' = _lines \o << <<"-">>, <<"-">>, <<"-">> >>
    /\ lastOp' = "addDivider"
    /\ ret' = Self
    /\ arg' = <<>> /\ calls' = <<>> /\ rendered' = <<>>
    /\ UNCHANGED <<env, obj, doc, content, writes, closes>>

\* Summary.addDivider
addDivider ==
    /\ obj = "built"
    /\ _lines' = Append(_lines, <<"-", "-", "-">>)
    /\ lastOp' = "addDivider"
    /\ ret' = Self
    /\ arg' = <<>> /\ calls' = <<>> /\ rendered' = <<>>
    /\ UNCHANGED <<env, obj, doc, content, writes, closes>>

\* Block with '\n\n'.join for '\n'.join: a blank line between fragments.
Block_doubleSeparator(lines) == Join(<<NL, NL>>, lines) \o <<NL>>

\* Block without the trailing newline.
Block_noTrailingNewline(lines) == Join(<<NL>>, lines)

\* Summary.write: content = '\n'.join(self._lines) + '\n'
Block(lines) == Join(<<NL>>, lines) \o <<NL>>

\* Variants of write, each with one slip:
\*   "unguarded": the test of self._lines is missing;
\*   "clears":    the buffer is emptied after a write that succeeded;
\*   "retries":   a sink write that raised is attempted a second time;
\*   "quiet":     a closed file is tested for, and nothing is written to it.
write_variant(outcome, slip) ==
    /\ obj = "built"
    /\ lastOp' = "write"
    /\ arg' = <<>> /\ rendered' = <<>>
    /\ IF _lines # <<>> \/ slip = "unguarded"
       THEN LET block == Join(<<NL>>, _lines) \o <<NL>>
                failed == IF doc = "closed" THEN "ValueError" ELSE "OSError"
            IN  IF doc = "closed" \/ outcome = "writeErr"
                THEN /\ calls' = IF slip = "retries"
                                 THEN <<SinkCall("write", block, failed),
                                        SinkCall("write", block, failed)>>
                                 ELSE IF slip = "quiet" /\ doc = "closed" THEN <<>>
                                 ELSE <<SinkCall("write", block, failed)>>
                     /\ ret' = IF slip = "quiet" /\ doc = "closed" THEN Self
                               ELSE Raise(failed, "write", <<>>)
                     /\ UNCHANGED <<content, writes, _lines>>
                ELSE /\ writes < MaxWrites
                     /\ content' = content \o block
                     /\ writes' = writes + 1
                     /\ calls' = <<SinkCall("write", block, "ok"),
                                   SinkCall("flush", <<>>,
                                            IF outcome = "flushErr" THEN "OSError" ELSE "ok")>>
                     /\ ret' = IF outcome = "flushErr" THEN Raise("OSError", "flush", <<>>)
                               ELSE Self
                     /\ _lines' = IF slip = "clears" /\ outcome = "ok" THEN <<>> ELSE _lines
       ELSE /\ calls' = <<>>
            /\ ret' = Self
            /\ UNCHANGED <<content, writes, _lines>>
    /\ UNCHANGED <<env, obj, doc, closes>>
write_unguarded(outcome) == write_variant(outcome, "unguarded")
write_clears(outcome) == write_variant(outcome, "clears")
write_retries(outcome) == write_variant(outcome, "retries")
write_quiet(outcome) == write_variant(outcome, "quiet")

\* Summary.write.  A write on a closed file raises ValueError; on an open one
\* the sink decides the outcome.
write(outcome) ==
    /\ obj = "built"
    /\ lastOp' = "write"
    /\ arg' = <<>> /\ rendered' = <<>>
    /\ IF _lines # <<>>
       THEN IF doc = "closed"
            THEN /\ calls' = <<SinkCall("write", Block(_lines), "ValueError")>>
                 /\ ret' = Raise("ValueError", "I/O operation on closed file.", <<>>)
                 /\ UNCHANGED <<content, writes>>
            ELSE IF outcome = "writeErr"
            THEN /\ calls' = <<SinkCall("write", Block(_lines), "OSError")>>
                 /\ ret' = Raise("OSError", "write", <<>>)
                 /\ UNCHANGED <<content, writes>>
            ELSE /\ writes < MaxWrites
                 /\ content' = content \o Block(_lines)
                 /\ writes' = writes + 1
                 /\ IF outcome = "flushErr"
                    THEN /\ calls' = <<SinkCall("write", Block(_lines), "ok"),
                                       SinkCall("flush", <<>>, "OSError")>>
                         /\ ret' = Raise("OSError", "flush", <<>>)
                    ELSE /\ calls' = <<SinkCall("write", Block(_lines), "ok"),
                                       SinkCall("flush", <<>>, "ok")>>
                         /\ ret' = Self
       ELSE /\ calls' = <<>>
            /\ ret' = Self
            /\ UNCHANGED <<content, writes>>
    /\ UNCHANGED <<env, obj, doc, _lines, closes>>

\* Summary.__del__: also runs for an instance whose __init__ raised, which
\* has no doc attribute.
__del__ ==
    /\ obj \in {"built", "partial"}
    /\ lastOp' = "__del__"
    /\ arg' = <<>> /\ rendered' = <<>>
    /\ ret' = NoValue
    /\ IF doc # "none" /\ doc # "closed"
       THEN /\ doc' = "closed"
            /\ closes' = closes + 1
            /\ calls' = <<SinkCall("close", <<>>, "ok")>>
       ELSE /\ calls' = <<>>
            /\ UNCHANGED <<doc, closes>>
    /\ UNCHANGED <<env, obj, _lines, content, writes>>

\* close emitting what is buffered before it closes the file.
close_flushes ==
    /\ obj = "built"
    /\ lastOp' = "close"
    /\ arg' = <<>> /\ rendered' = <<>>
    /\ ret' = NoValue
    /\ IF doc # "none" /\ doc # "closed"
       THEN /\ doc' = "closed"
            /\ closes' = closes + 1
            /\ IF _lines # <<>>
               THEN /\ content' = content \o Block(_lines)
                    /\ calls' = <<SinkCall("write", Block(_lines), "ok"),
                                  SinkCall("close", <<>>, "ok")>>
               ELSE /\ calls' = <<SinkCall("close", <<>>, "ok")>>
                    /\ UNCHANGED content
       ELSE /\ calls' = <<>>
            /\ UNCHANGED <<doc, closes, content>>
    /\ UNCHANGED <<env, obj, _lines, writes>>

\* close without the test of self.doc.closed.
close_unguarded ==
    /\ obj = "built"
    /\ lastOp' = "close"
    /\ arg' = <<>> /\ rendered' = <<>>
    /\ ret' = NoValue
    /\ doc' = "closed"
    /\ closes' = closes + 1
    /\ calls' = <<SinkCall("close", <<>>, "ok")>>
    /\ UNCHANGED <<env, obj, _lines, content, writes>>

\* Summary.close
close ==
    /\ obj = "built"
    /\ lastOp' = "close"
    /\ arg' = <<>> /\ rendered' = <<>>
    /\ ret' = NoValue
    /\ IF doc # "none" /\ doc # "closed"
       THEN /\ doc' = "closed"
            /\ closes' = closes + 1
            /\ calls' = <<SinkCall("close", <<>>, "ok")>>
       ELSE /\ calls' = <<>>
            /\ UNCHANGED <<doc, closes>>
    /\ UNCHANGED <<env, obj, _lines, content, writes>>

----------------------------------------------------------------------------
\* The builder's life: construction, then any sequence of calls.

\* The arguments the calls are made with.
Word == <<"h", "i">>
TextArgs == {<<Word, BOLD, None>>, <<Word, NoStyle, Some(<<"x">>)>>}
HeadingArgs == {<<Word, "H2", None>>, <<Word, SETEXT1, Some(<<"x">>)>>}
CodeArgs == {<<Word, Some(<<"p", "y">>)>>}
LinkArgs == {<<Word, <<"u">>, Some(<<"t">>), ITALIC>>}
TableArgs ==
    { <<>>,
      << <<>> >>,
      << <<Text(<<"a">>, ITALIC, None), Link(<<"b">>, <<"u">>, None, BOLD)>>,
         <<StrCell(<<"c">>)>> >>,
      << <<StrCell(<<"a">>), Text(<<"b">>, BOLD, None)>>,
         <<IntCell(30), Link(<<"c">>, <<"u">>, None, NoStyle)>> >> }

\* Adds are explored while the buffer is short of MaxLines fragments.
Room == Len(_lines) < MaxLines

Next ==
    \/ __init__
    \/ Room /\ \E a \in TextArgs : addText(a[1], a[2], a[3])
    \/ Room /\ \E a \in HeadingArgs : addHeading(a[1], a[2], a[3])
    \/ Room /\ \E a \in CodeArgs : addCode(a[1], a[2])
    \/ Room /\ \E a \in LinkArgs : addLink(a[1], a[2], a[3], a[4])
    \/ Room /\ \E data \in TableArgs : addTable(data)
    \/ Room /\ addNewLine
    \/ Room /\ addDivider
    \/ \E outcome \in Outcomes : write(outcome)
    \/ close
    \/ __del__

Spec == Init /\ [][Next]_vars

----------------------------------------------------------------------------
\* addTable over every table of up to MaxRows rows drawn from RowPool: rows of
\* 0, 1 and 3 cells, holding str, int, Text and Link cells.

RowPool ==
    { <<>>,
      <<Text(<<"b">>, BOLD, Some(<<"x">>))>>,
      <<StrCell(<<"a">>), IntCell(30), Link(<<"c">>, <<"u">>, Some(<<"t">>), UNDERLINED)>> }

Tables == UNION {[1..k -> RowPool] : k \in 0..MaxRows}

\* Tables are added while the buffer holds fewer than MaxTables fragments.
MaxTables == 1

NextTable ==
    \/ __init__
    \/ Len(_lines) < MaxTables /\ \E data \in Tables : addTable(data)
    \/ \E outcome \in Outcomes : write(outcome)
    \/ close

SpecTable == Init /\ [][NextTable]_vars

----------------------------------------------------------------------------
\* addText, addHeading and addLink over every combination of a text (empty,
\* one line, two lines), a style or a heading kind, and an optional id or
\* title (None, the empty string, a non-empty string).

AllStyles == TextStyle \cup {NoStyle}
RenderTexts == {<<>>, <<"h", "i">>, <<"a", NL, "b">>}
AnchorIds == {None, Some(<<>>), Some(<<"x">>)}
Titles == {None, Some(<<>>), Some(<<"t">>)}
Url == <<"u">>

\* These adds are explored while the buffer holds fewer than MaxAdds fragments.
MaxAdds == 1

NextRender ==
    \/ __init__
    \/ /\ Len(_lines) < MaxAdds
       /\ \E text \in RenderTexts, style \in AllStyles, id \in AnchorIds :
              addText(text, style, id)
    \/ /\ Len(_lines) < MaxAdds
       /\ \E text \in RenderTexts, kind \in HeadingKind, id \in AnchorIds :
              addHeading(text, kind, id)
    \/ /\ Len(_lines) < MaxAdds
       /\ \E text \in RenderTexts, title \in Titles, style \in AllStyles :
              addLink(text, Url, title, style)

SpecRender == Init /\ [][NextRender]_vars

----------------------------------------------------------------------------
\* Concatenations: a renderable with any operand on either side, and the
\* chain a + s + b + t under both groupings.

Renderables ==
    { Text(<<"h", "i">>, BOLD, None),
      Text(<<>>, NoStyle, Some(<<"x">>)),
      Link(<<"c">>, <<"u">>, None, ITALIC),
      Link(<<"c">>, <<"u">>, Some(<<"t">>), NoStyle) }
Strings == {StrCell(<<>>), StrCell(<<"s">>), StrCell(<<"t", "t">>)}
Operands == Renderables \cup Strings \cup {IntCell(5), NoneCell}

\* What the expression hands back: the value, or the TypeError.
Outcome(value) ==
    IF value = NotImplemented
    THEN Raise("TypeError", "unsupported operand type(s) for +", <<>>)
    ELSE Return(value)

\* a + x (side "left": a is the left operand) or x + a (side "right").
Concat(a, x, side) ==
    /\ lastOp' = "+"
    /\ arg' = <<a, x, side>>
    /\ ret' = Outcome(IF side = "left" THEN Plus(a, x) ELSE Plus(x, a))
    /\ UNCHANGED <<progVars, calls, rendered>>

\* a + s + b + t, grouped ((a + s) + b) + t or a + (s + (b + t)).
ConcatChain(a, s, b, t, grouping) ==
    /\ lastOp' = "chain"
    /\ arg' = <<a, s, b, t, grouping>>
    /\ ret' = Outcome(IF grouping = "left" THEN Plus(Plus(Plus(a, s), b), t)
                      ELSE Plus(a, Plus(s, Plus(b, t))))
    /\ UNCHANGED <<progVars, calls, rendered>>

NextConcat ==
    \/ \E a \in Renderables, x \in Operands, side \in {"left", "right"} :
           Concat(a, x, side)
    \/ \E a \in Renderables, s \in Strings, b \in Renderables, t \in Strings,
          grouping \in {"left", "right"} :
           ConcatChain(a, s, b, t, grouping)

SpecConcat == Init /\ [][NextConcat]_vars

----------------------------------------------------------------------------
\* Properties.

AddOps ==
    {"addText", "addHeading", "addCode", "addLink", "addTable", "addNewLine", "addDivider"}

\* f1 + "\n" + f2 + "\n" + ... + fn + "\n", fragment by fragment.
RECURSIVE EachThenNewline(_)
EachThenNewline(frags) ==
    IF frags = <<>> THEN <<>>
    ELSE frags[1] \o <<NL>> \o EachThenNewline(Tail(frags))

\* The positions of the calls of one operation in a sequence of sink calls.
CallsOf(cs, op) == {i \in 1..Len(cs) : cs[i].op = op}

\* C1: every successful add-operation leaves the fragments already buffered as
\* they were, in their order, appends exactly one fragment after them, and
\* returns the builder itself.
C1_AddAppendsOneFragment ==
    [][(lastOp' \in AddOps /\ ret'.kind = "return")
       => /\ Len(_lines') = Len(_lines) + 1
          /\ SubSeq(_lines', 1, Len(_lines)) = _lines
          /\ ret' = Self]_vars

\* An add made on a buffer that already holds a fragment.
C1_Witness == lastOp \in AddOps /\ ret = Self /\ Len(_lines) = 2

\* C2: a write() on an open builder with fragments f1..fn, n >= 1, makes exactly
\* one sink write, first of its sink calls, with f1 + "\n" + ... + fn + "\n";
\* when the sink takes that write, exactly one flush follows it and nothing
\* else, before write() hands back to its caller.
C2_WriteEmitsBlockThenFlush ==
    [][(lastOp' = "write" /\ doc = "open" /\ _lines # <<>>)
       => /\ CallsOf(calls', "write") = {1}
          /\ calls'[1].data = EachThenNewline(_lines)
          /\ calls'[1].result = "ok"
             => (Len(calls') = 2 /\ calls'[2].op = "flush")
          /\ ret' = Self
             => calls' = <<SinkCall("write", EachThenNewline(_lines), "ok"),
                           SinkCall("flush", <<>>, "ok")>>]_vars

\* A write of two fragments that returned.
C2_Witness ==
    /\ lastOp = "write" /\ ret = Self /\ doc = "open" /\ Len(_lines) = 2
    /\ Len(calls) = 2 /\ calls[1].data = EachThenNewline(_lines)

\* C3: a write() with an empty buffer makes no sink call, leaves the sink
\* content as it was and returns the builder.
C3_EmptyWriteIsNoOp ==
    [][(lastOp' = "write" /\ _lines = <<>>)
       => /\ calls' = <<>>
          /\ content' = content
          /\ writes' = writes
          /\ ret' = Self]_vars

\* A write made on a builder nothing was added to.
C3_Witness == lastOp = "write" /\ _lines = <<>> /\ ret = Self /\ calls = <<>>

\* C4: a write() that returns leaves the buffer as it was and appends the block
\* of the whole buffer to the sink content; so a second write with no add in
\* between appends the same block again, and one made after further adds emits
\* the earlier fragments again, followed by the new ones.
C4_WriteKeepsBuffer ==
    [][(lastOp' = "write" /\ ret'.kind = "return")
       => /\ _lines' = _lines
          /\ content' = content \o EachThenNewline(_lines)]_vars

\* Two writes of the same non-empty buffer: the sink holds its block twice.
C4_Witness ==
    /\ lastOp = "write" /\ ret = Self /\ writes = 2 /\ _lines # <<>>
    /\ content = FileAt(env[1]) \o EachThenNewline(_lines) \o EachThenNewline(_lines)

\* C5: an addTable that fails validation leaves the buffer and all the rest of
\* the builder's and the sink's state as before the call, and has called no
\* cell's render() and nothing on the sink; the calls that follow therefore
\* start from the state they would have started from without it.
C5_FailedTableChangesNothing ==
    [][(lastOp' = "addTable" /\ ret'.kind = "raise")
       => /\ UNCHANGED progVars
          /\ rendered' = <<>>
          /\ calls' = <<>>]_vars

\* A table whose header holds renderable cells and whose second row is too
\* short, refused on a buffer that holds a fragment.
C5_Witness ==
    /\ lastOp = "addTable" /\ ret.kind = "raise" /\ ret.args # <<>>
    /\ Len(_lines) >= 1
    /\ HasRender(arg[1][1])

\* The 0-based indices of the rows whose width differs from the header's.
Offending(rows) == {i \in 0..(Len(rows) - 1) : Len(rows[i + 1]) # Len(rows[1])}

\* C6: addTable(rows) raises ValueError exactly when rows is empty, or the
\* header has no column, or some row's width differs from the header's; the
\* empty table and the empty header have messages of their own, and a width
\* error carries the lowest offending 0-based index, that row's width and the
\* header's width.  Otherwise addTable returns the builder.
C6_TableValidation ==
    lastOp = "addTable"
    => IF arg = <<>>
       THEN ret = Raise("ValueError", "Table data cannot be empty", <<>>)
       ELSE IF Len(arg[1]) = 0
       THEN /\ ret = Raise("ValueError", "Header row cannot be empty", <<>>)
            /\ ret.msg # "Table data cannot be empty"
       ELSE IF Offending(arg) # {}
       THEN LET i == CHOOSE k \in Offending(arg) : \A m \in Offending(arg) : k <= m
            IN  /\ ret.kind = "raise"
                /\ ret.exc = "ValueError"
                /\ ret.args = <<i, Len(arg[i + 1]), Len(arg[1])>>
       ELSE ret = Self

\* A table with two offending rows: the error names the first.
C6_Witness ==
    /\ lastOp = "addTable" /\ Len(arg) = 3
    /\ Offending(arg) = {1, 2}
    /\ ret.args = <<1, Len(arg[2]), Len(arg[1])>>

\* What a cell contributes: its render() output, or its plain string form.
CellText(cell) ==
    IF cell.type = "Text" THEN Text_render(cell)
    ELSE IF cell.type = "Link" THEN Link_render(cell)
    ELSE IF cell.type = "int" THEN IntStr(cell.n)
    ELSE cell.text

\* c1 + " | " + c2 + " | " + ... + cn, cell by cell.
RECURSIVE CellsWithBars(_)
CellsWithBars(cells) ==
    IF Len(cells) = 1 THEN cells[1]
    ELSE cells[1] \o <<" ", "|", " ">> \o CellsWithBars(Tail(cells))

ExpectedRow(row) ==
    <<"|", " ">> \o CellsWithBars([j \in 1..Len(row) |-> CellText(row[j])]) \o <<" ", "|">>

\* C7: for a valid table of N rows and M >= 1 columns addTable appends one
\* fragment of exactly N+1 lines: the header's row line, a separator of
\* exactly M cells ---, then the data rows' lines in input order; a row line is
\* "| " + cells joined by " | " + " |", a cell giving its render() output when
\* it has one and its plain string form otherwise; render() is called on the
\* cells that have one, in that order.
C7_TableFragment ==
    (lastOp = "addTable" /\ ret = Self)
    => LET N == Len(arg)
           M == Len(arg[1])
           lines == SplitNL(_lines[Len(_lines)])
       IN  /\ M >= 1
           /\ Len(lines) = N + 1
           /\ lines[1] = ExpectedRow(arg[1])
           /\ lines[2] = <<"|", " ">>
                         \o CellsWithBars([j \in 1..M |-> <<"-", "-", "-">>])
                         \o <<" ", "|">>
           /\ \A k \in 2..N : lines[k + 1] = ExpectedRow(arg[k])

\* A table of three rows of three columns, with str, int and Link cells.
C7_Witness ==
    /\ lastOp = "addTable" /\ ret = Self
    /\ Len(arg) = 3 /\ Len(arg[1]) = 3
    /\ Len(rendered) = 3

\* C8: the sink's close is called at most once, whatever adds and writes were
\* made: a close() or a finalization of an open builder closes the sink, and
\* one of a closed builder calls nothing on the sink; neither raises.
C8_CloseAtMostOnce ==
    /\ closes <= 1
    /\ (doc = "closed") <=> (closes = 1)
    /\ lastOp \in {"close", "__del__"}
       => /\ ret = NoValue
          /\ obj = "built" => (doc = "closed" /\ closes = 1)
          /\ calls \in {<<>>, <<SinkCall("close", <<>>, "ok")>>}

\* A close() of a builder already closed, after two writes.
C8_Witness ==
    lastOp = "close" /\ calls = <<>> /\ closes = 1 /\ writes = 2 /\ doc = "closed"

\* C9: with no sink location (the variable unset or empty) construction raises
\* ValueError: no builder is produced, open() is not called and nothing is
\* written; with a location it yields a builder whose sink is open in append
\* mode, holding what the file held, and whose buffer is empty.
C9_Construction ==
    /\ ~Truthy(env)
       => /\ obj # "built" /\ doc = "none" /\ content = <<>> /\ writes = 0
          /\ lastOp = "__init__"
             => (ret.kind = "raise" /\ ret.exc = "ValueError" /\ calls = <<>>)
    /\ (Truthy(env) /\ lastOp = "__init__")
       => /\ obj = "built" /\ doc = "open" /\ _lines = <<>>
          /\ calls = <<SinkCall("open", <<"a">>, "ok")>>
          /\ content = FileAt(env[1])
          /\ ret = NoValue

\* A construction with the variable unset.
C9_Witness == lastOp = "__init__" /\ env = None /\ ret.kind = "raise" /\ obj = "partial"

\* C10: when a sink call made by write() fails, write() raises that call's
\* exception, makes no sink call after the failed one (no second write, no
\* flush after a failed write), and leaves the buffer as it was.
C10_SinkFailurePropagates ==
    [][(lastOp' = "write" /\ \E i \in 1..Len(calls') : calls'[i].result # "ok")
       => LET i == CHOOSE k \in 1..Len(calls') : calls'[k].result # "ok"
          IN  /\ i = Len(calls')
              /\ \A k \in 1..(i - 1) : calls'[k].result = "ok"
              /\ Cardinality(CallsOf(calls', "write")) = 1
              /\ Cardinality(CallsOf(calls', "flush")) <= 1
              /\ ret'.kind = "raise"
              /\ ret'.exc = calls'[i].result
              /\ _lines' = _lines]_vars

\* A write() of two fragments whose flush failed.
C10_Witness ==
    /\ lastOp = "write" /\ ret.kind = "raise" /\ ret.exc = "OSError"
    /\ Len(calls) = 2 /\ calls[2].op = "flush" /\ Len(_lines) = 2

\* The number of newline characters in a string.
NewlineCount(str) == Cardinality({i \in 1..Len(str) : str[i] = NL})

RECURSIVE NewlinesIn(_)
NewlinesIn(frags) ==
    IF frags = <<>> THEN 0 ELSE NewlineCount(frags[1]) + NewlinesIn(Tail(frags))

\* The string ends with a newline that no other newline precedes.
EndsWithOneNewline(str) ==
    /\ str # <<>>
    /\ str[Len(str)] = NL
    /\ Len(str) >= 2 => str[Len(str) - 1] # NL

\* The fragments with exactly one newline between each two.
RECURSIVE OneNewlineBetween(_)
OneNewlineBetween(frags) ==
    IF Len(frags) = 1 THEN frags[1]
    ELSE frags[1] \o <<NL>> \o OneNewlineBetween(Tail(frags))

\* C11 as stated: the block handed to the sink has exactly one newline between
\* consecutive fragments and ends with exactly one newline, for every
\* non-empty buffer, one that ends with addNewLine's fragment included.
C11_BlockEndsWithOneNewline ==
    (lastOp = "write" /\ calls # <<>>)
    => /\ SubSeq(calls[1].data, 1, Len(calls[1].data) - 1) = OneNewlineBetween(_lines)
       /\ EndsWithOneNewline(calls[1].data)

\* C11 amended: the block is the fragments in order with exactly one newline
\* added between each two and exactly one added after the last, and no other
\* character; it ends with exactly one newline when the last fragment is not
\* empty and does not end with a newline, and with more than one when the last
\* fragment is empty and is not the only one.
C11_BlockOneNewlinePerFragment ==
    (lastOp = "write" /\ calls # <<>>)
    => LET block == calls[1].data
           last == _lines[Len(_lines)]
       IN  /\ block # <<>> /\ block[Len(block)] = NL
           /\ SubSeq(block, 1, Len(block) - 1) = OneNewlineBetween(_lines)
           /\ NewlineCount(block) = Len(_lines) + NewlinesIn(_lines)
           /\ (last # <<>> /\ last[Len(last)] # NL) => EndsWithOneNewline(block)
           /\ (last = <<>> /\ Len(_lines) >= 2) => ~EndsWithOneNewline(block)

\* A write of a buffer whose last fragment is addNewLine's.
C11_Witness ==
    /\ lastOp = "write" /\ ret = Self
    /\ Len(_lines) = 2 /\ _lines[1] # <<>> /\ _lines[2] = <<>>
    /\ calls[1].data = _lines[1] \o <<NL, NL>>

\* The delimiter pair of a style around a string.
Wrapped(str, style) ==
    CASE style = BOLD -> <<"*", "*">> \o str \o <<"*", "*">>
      [] style = ITALIC -> <<"*">> \o str \o <<"*">>
      [] style = UNDERLINED -> <<"<", "u", ">">> \o str \o <<"<", "/", "u", ">">>
      [] OTHER -> str

\* <span id="ID"> and </span>
SpanTag(id) ==
    <<"<", "s", "p", "a", "n", " ", "i", "d", "=", "\"">> \o id \o <<"\"", ">">>
EndSpanTag == <<"<", "/", "s", "p", "a", "n", ">">>

\* C12 as stated: Text.render() and the fragment addText appends are the same
\* string, the content in its style's delimiters, inside <span id="ID"> and
\* </span> whenever an id is supplied, whatever string it is.
C12_TextIsStyledThenAnchored ==
    lastOp = "addText"
    => LET text == arg[1]
           style == arg[2]
           id == arg[3]
           expected == IF id # None
                       THEN SpanTag(id[1]) \o Wrapped(text, style) \o EndSpanTag
                       ELSE Wrapped(text, style)
       IN  /\ _lines[Len(_lines)] = expected
           /\ Text_render(Text(text, style, id)) = expected

Level(kind) == CHOOSE k \in 1..6 : kind = <<"H1", "H2", "H3", "H4", "H5", "H6">>[k]

\* C14: without an anchor id addHeading appends, for Hk, exactly k '#', one
\* space, then the text; for Setext1 (Setext2) the text, a newline and a run
\* of '=' ('-') as long as the text, the empty text included.
C14_HeadingFragment ==
    (lastOp = "addHeading" /\ arg[3] = None)
    => LET text == arg[1]
           kind == arg[2]
           frag == _lines[Len(_lines)]
           n == Len(text)
       IN  IF kind \in ATX
           THEN /\ Len(frag) = Level(kind) + 1 + n
                /\ \A i \in 1..Level(kind) : frag[i] = "#"
                /\ frag[Level(kind) + 1] = " "
                /\ SubSeq(frag, Level(kind) + 2, Len(frag)) = text
           ELSE /\ Len(frag) = 2 * n + 1
                /\ SubSeq(frag, 1, n) = text
                /\ frag[n + 1] = NL
                /\ \A i \in (n + 2)..(2 * n + 1) :
                      frag[i] = IF kind = SETEXT1 THEN "=" ELSE "-"

\* A Setext2 heading of a two-character text.
C14_Witness ==
    /\ lastOp = "addHeading" /\ arg[3] = None /\ arg[2] = SETEXT2
    /\ _lines[Len(_lines)] = <<"h", "i", NL, "-", "-">>

\* C15 as stated, for the ids that are non-empty strings: an ATX heading is the
\* one line <span id="ID"> + heading + </span>; a Setext heading is the opening
\* tag alone on a line, the text, the underline of len(text) characters, and
\* the closing tag alone on the line after the underline.
C15_AnchoredHeading ==
    (lastOp = "addHeading" /\ arg[3] # None /\ arg[3][1] # <<>>)
    => LET text == arg[1]
           kind == arg[2]
           id == arg[3][1]
           frag == _lines[Len(_lines)]
       IN  IF kind \in ATX
           THEN frag = SpanTag(id) \o Repeat("#", Level(kind)) \o <<" ">> \o text
                       \o EndSpanTag
           ELSE frag = SpanTag(id) \o <<NL>> \o text \o <<NL>>
                       \o Repeat(IF kind = SETEXT1 THEN "=" ELSE "-", Len(text))
                       \o <<NL>> \o EndSpanTag

\* asString(x): a string itself, a renderable's render() output.
AsString(x) ==
    IF x.type = "str" THEN x.text
    ELSE IF x.type = "Text" THEN Text_render(x) ELSE Link_render(x)

\* C16: for a renderable a and an operand x that is a string or a renderable,
\* a + x is a.render() followed by asString(x) and x + a is asString(x)
\* followed by a.render(), a plain string (so a + "" and "" + a are
\* a.render()); the chain a + s + b + t is a.render() + s + b.render() + t
\* under either grouping.
C16_Concatenation ==
    /\ (lastOp = "+" /\ arg[2].type \in {"str", "Text", "Link"})
       => /\ ret.kind = "return"
          /\ ret.value.type = "str"
          /\ ret.value.text = IF arg[3] = "left"
                              THEN AsString(arg[1]) \o AsString(arg[2])
                              ELSE AsString(arg[2]) \o AsString(arg[1])
          /\ arg[2] = StrCell(<<>>) => ret.value.text = AsString(arg[1])
    /\ lastOp = "chain"
       => ret = Return(StrCell(AsString(arg[1]) \o arg[2].text
                               \o AsString(arg[3]) \o arg[4].text))

\* A string on the left of a Text.
C16_Witness ==
    /\ lastOp = "+" /\ arg[3] = "right"
    /\ arg[1] = Text(<<"h", "i">>, BOLD, None) /\ arg[2] = StrCell(<<"s">>)
    /\ ret.value.text = <<"s", "*", "*", "h", "i", "*", "*">>

\* C17: a renderable concatenated, on either side, with an operand that is
\* neither a string nor a renderable gives a TypeError, never a string.
C17_UnsupportedOperand ==
    (lastOp = "+" /\ arg[2].type \notin {"str", "Text", "Link"})
    => /\ ret.kind = "raise"
       /\ ret.exc = "TypeError"

\* An int on the right of a Text.
C17_Witness ==
    /\ lastOp = "+" /\ arg[3] = "left"
    /\ arg[1].type = "Text" /\ arg[2] = IntCell(5)
    /\ ret.exc = "TypeError"

\* C18 as stated: the sink content grows by the block of each write() that
\* returned, and by nothing else.
C18_BlocksOfSuccessfulWrites ==
    [][content' = content \o (IF lastOp' = "write" /\ ret'.kind = "return"
                              THEN EachThenNewline(_lines)
                              ELSE <<>>)]_vars

\* C18 amended: every step leaves what the sink held in place and adds, after
\* it, the block of the buffer when the step is a write() whose sink write was
\* accepted (whether or not the flush after it failed), and nothing otherwise;
\* so the sink content is what the file held at construction followed by those
\* blocks in call order, and each earlier content is a prefix of every later.
C18_SinkAppendOnly ==
    [][content' = content \o (IF /\ lastOp' = "write"
                                 /\ calls' # <<>>
                                 /\ calls'[1].result = "ok"
                              THEN EachThenNewline(_lines)
                              ELSE <<>>)]_vars

\* A file that held text at construction, then two writes the sink accepted,
\* the flush of the second failing: both blocks follow what the file held.
C18_Witness ==
    /\ env = Some(OldPath) /\ FileAt(OldPath) # <<>>
    /\ lastOp = "write" /\ ret.kind = "raise" /\ writes = 2 /\ _lines # <<>>
    /\ calls[1].result = "ok"
    /\ content = FileAt(OldPath) \o EachThenNewline(_lines) \o EachThenNewline(_lines)

C20_AfterClose ==
    [][(doc = "closed")
       => /\ (lastOp' \in AddOps /\ (lastOp' = "addTable" => Validate(arg') = Valid))
             => /\ ret' = Self
                /\ Len(_lines') = Len(_lines) + 1
                /\ SubSeq(_lines', 1, Len(_lines)) = _lines
          /\ (lastOp' = "write" /\ _lines # <<>>)
             => /\ ret'.kind = "raise"
                /\ ret'.exc = "ValueError"
                /\ Len(calls') = 1
                /\ calls'[1].op = "write"
                /\ calls'[1].result = "ValueError"
                /\ _lines' = _lines
                /\ content' = content
          /\ (lastOp' = "write" /\ _lines = <<>>)
             => /\ ret' = Self
                /\ calls' = <<>>
                /\ content' = content]_vars

\* A write() of a fragment added after close(), refused by the closed file.
C20_Witness ==
    /\ lastOp = "write" /\ doc = "closed" /\ closes = 1
    /\ ret.kind = "raise" /\ ret.exc = "ValueError"
    /\ Len(_lines) = 1 /\ writes = 0
    /\ content = FileAt(env[1])

====
